---- MODULE Spec2Model ----
(***************************************************************************)
(* A model of the planalityk frontend: the route preview generator of      *)
(* pages/Landing.jsx (grade preprocessing, power-balance speed solver,     *)
(* seeded noise), and the request handling of the upload form, the         *)
(* parameter form and the result page.                                     *)
(*                                                                         *)
(* JavaScript numbers are IEEE doubles.  They are modelled by decimal      *)
(* floating point numbers with a six digit mantissa, rounded to nearest:   *)
(* [m, e, fin] stands for m * 10^e, and fin = FALSE for a value that is    *)
(* not finite (NaN, +Infinity, -Infinity).  Every arithmetic operator      *)
(* below rounds its result the way a double operation does, with less      *)
(* precision.                                                              *)
(***************************************************************************)
EXTENDS Integers, Sequences, FiniteSets, TLC

VARIABLES
  pt,       \* one call of the speed callback: its arguments, locals and result
  rp,       \* the grade loops of makeRoutePreview: its locals
  pv,       \* a call of makeRoutePreview: its arguments and locals
  calls,    \* the calls of makeRoutePreview that returned: arguments and result
  page,     \* the router: the route shown, its fileId parameter and location state
  upload,   \* the state of UploadForm
  result,   \* the state of the Result page
  params,   \* the state of the ParamsForm of the Result page
  net,      \* the requests that are sent and not settled
  sent,     \* history: every request sent, in order
  last,     \* history: the last step of a handler
  agg,      \* one run of the aggregation of an analysis: its input and sums
  view      \* the map of the Result page: MapView, its places and their filters

\* What the pages leave alone.
previewVars == <<pt, rp, pv, calls, agg, view>>

\* What the preview generator leaves alone.
appVars == <<page, upload, result, params, net, sent, last, agg, view>>

----------------------------------------------------------------------------
(* Numbers *)

Abs(x) == IF x < 0 THEN -x ELSE x

Sgn(x) == IF x < 0 THEN -1 ELSE IF x > 0 THEN 1 ELSE 0

Zero == [m |-> 0, e |-> 0, fin |-> TRUE]

NaN == [m |-> 0, e |-> 0, fin |-> FALSE]

RoundDiv10(x) == Sgn(x) * ((Abs(x) + 5) \div 10)

\* m * 10^e as a number: six significant digits, overflow is not finite,
\* underflow is zero.
RECURSIVE Norm(_, _)
Norm(m, e) ==
  IF m = 0 THEN Zero
  ELSE IF Abs(m) >= 1000000 THEN Norm(RoundDiv10(m), e + 1)
  ELSE IF Abs(m) < 100000 THEN Norm(m * 10, e - 1)
  ELSE IF e > 303 THEN NaN
  ELSE IF e < -329 THEN Zero
  ELSE [m |-> m, e |-> e, fin |-> TRUE]

Num(n) == Norm(n, 0)

IsFinite(a) == a.fin

Neg(a) == IF ~a.fin THEN NaN ELSE [a EXCEPT !.m = -a.m]

RECURSIVE Pow10(_)
Pow10(n) == IF n = 0 THEN 1 ELSE 10 * Pow10(n - 1)

\* a + b: the operand of smaller exponent is shifted right, one guard digit kept.
AddOrdered(x, y) ==
  LET shift == x.e - y.e
  IN  IF shift > 7 THEN x
      ELSE Norm(x.m * 10 + Sgn(y.m) * ((Abs(y.m) * 10) \div Pow10(shift)), x.e - 1)

Add(a, b) ==
  IF ~a.fin \/ ~b.fin THEN NaN
  ELSE IF a.m = 0 THEN b
  ELSE IF b.m = 0 THEN a
  ELSE IF a.e >= b.e THEN AddOrdered(a, b)
  ELSE AddOrdered(b, a)

Sub(a, b) == Add(a, Neg(b))

\* a * b: the twelve digit product of the mantissas, from three digit halves,
\* cut to seven digits and rounded by Norm.
Mul(a, b) ==
  IF ~a.fin \/ ~b.fin THEN NaN
  ELSE IF a.m = 0 \/ b.m = 0 THEN Zero
  ELSE LET x  == Abs(a.m)
           y  == Abs(b.m)
           x1 == x \div 1000
           x0 == x % 1000
           y1 == y \div 1000
           y0 == y % 1000
           hi == x1 * y1
           mid == x1 * y0 + x0 * y1
           lo == x0 * y0
           top == hi * 10 + mid \div 100 + ((mid % 100) * 1000 + lo) \div 100000
       IN  Norm(Sgn(a.m) * Sgn(b.m) * top, a.e + b.e + 5)

\* n more digits of r / d, appended to acc (long division).
RECURSIVE DivDigits(_, _, _, _)
DivDigits(r, d, n, acc) ==
  IF n = 0 THEN acc
  ELSE DivDigits((r * 10) % d, d, n - 1, acc * 10 + (r * 10) \div d)

\* a / b; x / 0 is not finite (Infinity or NaN).
Div(a, b) ==
  IF ~a.fin \/ ~b.fin \/ b.m = 0 THEN NaN
  ELSE IF a.m = 0 THEN Zero
  ELSE LET x == Abs(a.m)
           y == Abs(b.m)
           q == DivDigits(x % y, y, 7, x \div y)
       IN  Norm(Sgn(a.m) * Sgn(b.m) * q, a.e - b.e - 7)

\* a < b; false when either is not finite, as in JavaScript for NaN.
Lt(a, b) == a.fin /\ b.fin /\ Sub(a, b).m < 0

Le(a, b) == a.fin /\ b.fin /\ Sub(a, b).m <= 0

\* Math.max(a, b): NaN when either argument is NaN.
MathMax(a, b) == IF ~a.fin \/ ~b.fin THEN NaN ELSE IF Lt(a, b) THEN b ELSE a

MathMin(a, b) == IF ~a.fin \/ ~b.fin THEN NaN ELSE IF Lt(b, a) THEN b ELSE a

MathAbs(a) == IF ~a.fin THEN NaN ELSE [a EXCEPT !.m = Abs(a.m)]

\* The square root of a >= 0 by Heron's iteration from y.
RECURSIVE SqrtIter(_, _, _)
SqrtIter(a, y, n) ==
  IF n = 0 THEN y
  ELSE SqrtIter(a, Div(Add(y, Div(a, y)), Num(2)), n - 1)

\* Math.sqrt, for arguments between 1 and 4.
MathSqrt(a) ==
  IF ~a.fin \/ a.m < 0 THEN NaN ELSE IF a.m = 0 THEN Zero ELSE SqrtIter(a, Num(1), 6)

\* Math.sin(Math.atan(x)) = x / sqrt(1 + x^2).
SinAtan(x) == Div(x, MathSqrt(Add(Num(1), Mul(x, x))))

\* Math.cos(Math.atan(x)) = 1 / sqrt(1 + x^2).
CosAtan(x) == Div(Num(1), MathSqrt(Add(Num(1), Mul(x, x))))

----------------------------------------------------------------------------
(* JavaScript values other than numbers.  Every value is a record, so that  *)
(* any two values can be compared; an object is a record of its own keys.   *)

Undefined == [fin |-> FALSE, undefined |-> TRUE]

Null == [fin |-> FALSE, null |-> TRUE]

Bool(b) == [fin |-> FALSE, bool |-> b]

Str(s) == [fin |-> FALSE, str |-> s]

IsNumber(v) == "m" \in DOMAIN v

\* v is undefined or null: the values that x ?? d and x?.k replace.
Nullish(v) == v = Undefined \/ v = Null

\* !!v
Truthy(v) ==
  IF Nullish(v) THEN FALSE
  ELSE IF "bool" \in DOMAIN v THEN v.bool
  ELSE IF "str" \in DOMAIN v THEN v.str # ""
  ELSE IF IsNumber(v) THEN v.fin /\ v.m # 0
  ELSE IF "fin" \in DOMAIN v THEN FALSE
  ELSE TRUE

\* o.k and o?.k: undefined for a key the object does not have.
Get(o, k) == IF k \in DOMAIN o THEN o[k] ELSE Undefined

\* a ?? b
Coalesce(a, b) == IF Nullish(a) THEN b ELSE a

\* The texts a numeric input can hold after an edit: empty, or a number.
InputTexts == {"", "12.5"}

\* Number(v)
Number(v) ==
  IF IsNumber(v) THEN v
  ELSE IF "str" \in DOMAIN v
    THEN CASE v.str = "" -> Zero
           [] v.str = "12.5" -> Norm(125, -1)
           [] OTHER -> NaN
  ELSE IF "bool" \in DOMAIN v THEN (IF v.bool THEN Num(1) ELSE Zero)
  ELSE IF v = Null THEN Zero
  ELSE NaN

\* String(v), for the values a field of UploadForm can hold.
String(v) ==
  IF "str" \in DOMAIN v THEN v.str
  ELSE IF "bool" \in DOMAIN v THEN (IF v.bool THEN "true" ELSE "false")
  ELSE IF v = Undefined THEN "undefined"
  ELSE IF v = Null THEN "null"
  ELSE CASE v = Num(15) -> "15"
         [] v = Num(75) -> "75"
         [] v = Num(10) -> "10"
         [] v = Norm(3, -1) -> "0.3"
         [] v = Norm(4, -3) -> "0.004"
         [] v = Zero -> "0"
         [] OTHER -> "NaN"

\* The seven fields of a rider configuration.
Fields == {"flat_mph", "physics", "rider_kg", "bike_kg", "cda", "crr", "wind_mph"}

NumericFields == Fields \ {"physics"}

NoUpload == [mounted |-> FALSE]

NoResult == [mounted |-> FALSE]

NoParams == [mounted |-> FALSE]

----------------------------------------------------------------------------
(* pages/Landing.jsx, mulberry32: 32 bit integers are pairs of 16 bit      *)
(* halves [hi, lo], so that no product leaves the range of the integers.   *)

Word(hi, lo) == [hi |-> hi, lo |-> lo]

RECURSIVE BitXor(_, _, _)
BitXor(a, b, n) ==
  IF n = 0 THEN 0 ELSE ((a + b) % 2) + 2 * BitXor(a \div 2, b \div 2, n - 1)

RECURSIVE BitOr(_, _, _)
BitOr(a, b, n) ==
  IF n = 0 THEN 0
  ELSE (IF a % 2 = 1 \/ b % 2 = 1 THEN 1 ELSE 0) + 2 * BitOr(a \div 2, b \div 2, n - 1)

RECURSIVE Pow2(_)
Pow2(n) == IF n = 0 THEN 1 ELSE 2 * Pow2(n - 1)

\* a ^ b
Xor32(a, b) == Word(BitXor(a.hi, b.hi, 16), BitXor(a.lo, b.lo, 16))

\* a | c for a constant c below 65536
Or32(a, c) == Word(a.hi, BitOr(a.lo, c, 16))

\* a >>> k for 0 < k < 16
Shr32(a, k) ==
  Word(a.hi \div Pow2(k), (a.lo \div Pow2(k)) + (a.hi % Pow2(k)) * Pow2(16 - k))

\* a + b, modulo 2^32
Add32(a, b) ==
  LET lo == a.lo + b.lo
  IN  Word((a.hi + b.hi + lo \div 65536) % 65536, lo % 65536)

\* x * y modulo 2^16
MulMod16(x, y) == ((x % 256) * y + (((x \div 256) * y) % 256) * 256) % 65536

\* Math.imul(a, b): the low 32 bits of the product.
Imul(a, b) ==
  LET p0 == (a.lo % 256) * b.lo
      p1 == (a.lo \div 256) * b.lo
      lo == (p0 % 65536) + (p1 % 256) * 256
      hi == p0 \div 65536 + p1 \div 256 + lo \div 65536
  IN  Word((hi + MulMod16(a.hi, b.lo) + MulMod16(a.lo, b.hi)) % 65536, lo % 65536)

\* 0x6d2b79f5
RngIncrement == Word(27947, 31221)

\* The uint32 x as a number, divided by 4294967296.
UnitInterval(x) ==
  Div(Add(Mul(Num(x.hi), Num(65536)), Num(x.lo)), Mul(Num(65536), Num(65536)))

\* One call of the function mulberry32 returns, for the closure's variable
\* seed (kept modulo 2^32): the new seed and the value returned.
RngCall(seed) ==
  LET s  == Add32(seed, RngIncrement)
      t1 == Imul(Xor32(s, Shr32(s, 15)), Or32(s, 1))
      t2 == Xor32(t1, Add32(t1, Imul(Xor32(t1, Shr32(t1, 7)), Or32(t1, 61))))
  IN  [seed |-> s, value |-> UnitInterval(Xor32(t2, Shr32(t2, 14)))]

\* Mutant: one generator shared by all calls, which goes on where it was.
mulberry32_Shared(seed) == pv.rng

\* mulberry32(seed): a new closure, whose variable starts at the argument.
mulberry32(seed) == Word(seed \div 65536, seed % 65536)

\* The closure's variable after k more calls: seed += 0x6d2b79f5, k times.
SeedAfter(seed, k) == Add32(seed, Imul(Word(0, k), RngIncrement))

\* n calls: the new seed and the array of the n values returned.
RngDraws(seed, n) ==
  [seed |-> SeedAfter(seed, n),
   values |-> [i \in 0..(n - 1) |-> RngCall(SeedAfter(seed, i)).value]]

----------------------------------------------------------------------------
(* pages/Landing.jsx, noiseSeries *)

ClampIndex(n, j) == IF j < 0 THEN 0 ELSE IF j > n - 1 THEN n - 1 ELSE j

\* S after the inner loop has run from k to w.
RECURSIVE WindowSum(_, _, _, _, _, _)
WindowSum(a, n, i, k, w, S) ==
  IF k > w \/ ~S.fin THEN S
  ELSE WindowSum(a, n, i, k + 1, w, Add(S, a[ClampIndex(n, i + k)]))

\* noiseSeries(n, r, s) for an integer s >= 1, the closure r given by its
\* seed: the new seed and the array o.
noiseSeries(n, r, s) ==
  LET d == RngDraws(r, n)
      a == [i \in 0..(n - 1) |-> Sub(Mul(d.values[i], Num(2)), Num(1))]
      w == IF s < 1 THEN 1 ELSE s
  IN  [seed |-> d.seed,
       o |-> [i \in 0..(n - 1) |-> Div(WindowSum(a, n, i, -w, w, Zero), Num(2 * w + 1))]]

----------------------------------------------------------------------------
(* pages/Landing.jsx, makeRoutePreview: the rider and the power-balance    *)
(* speed solver applied to every point of the route.                       *)

flat_mph == Norm(185, -1)

CdA == Norm(3, -1)

Crr == Norm(4, -3)

mass == Num(62)

rho == Norm(1225, -3)

g == Norm(980665, -5)

MphToMs == Norm(44704, -5)

MsToMph == Norm(223694, -5)

\* Math.sin(theta) and Math.cos(theta) for theta = Math.atan(gp / 100).
sin_theta(gp) == SinAtan(Div(gp, Num(100)))

cos_theta(gp) == CosAtan(Div(gp, Num(100)))

grav(gp) == Mul(Mul(mass, g), sin_theta(gp))

roll(gp) == Mul(Mul(Mul(mass, g), Crr), cos_theta(gp))

v_flat == Mul(flat_mph, MphToMs)

HalfRhoCdA == Mul(Mul(Norm(5, -1), rho), CdA)

\* Mutant: the drag of the power budget lacks the factor 0.5.
P_FullRho == Mul(v_flat, Add(Mul(Mul(mass, g), Crr), Mul(Mul(Mul(rho, CdA), v_flat), v_flat)))

\* Mutant: the power budget leaves out the rolling resistance.
P_NoRolling == Mul(v_flat, Mul(Mul(HalfRhoCdA, v_flat), v_flat))

\* The power budget, from the flat speed on level ground without wind.
P == Mul(v_flat, Add(Mul(Mul(mass, g), Crr), Mul(Mul(HalfRhoCdA, v_flat), v_flat)))

\* The solver's start value: the heuristic speed for the grade, in m/s.
HeuristicAdjust(gp) ==
  IF Lt(gp, Zero) THEN Mul(MathAbs(gp), Norm(3, -1)) ELSE Mul(Neg(gp), Norm(25, -2))

SeedFloor == Num(2)

SeedSpeed(gp) == MathMax(SeedFloor, Add(v_flat, HeuristicAdjust(gp)))

aero(v) == Mul(Mul(HalfRhoCdA, v), v)

f(gp, v) == Sub(Mul(v, Add(Add(grav(gp), roll(gp)), aero(v))), P)

df(gp, v) == Add(Add(grav(gp), roll(gp)), Mul(Norm(15, -1), aero(v)))

Damping == Norm(6, -1)

MinDivisor == Norm(1, -6)

IterFloor == Num(1)

\* Mutant: the step is not clamped from below.
NewtonStep_NoClamp(gp, v) ==
  Sub(v, Mul(Damping, Div(f(gp, v), MathMax(MinDivisor, df(gp, v)))))

\* One pass of the loop body: a damped step, clamped from below.
NewtonStep(gp, v) ==
  MathMax(IterFloor, Sub(v, Mul(Damping, Div(f(gp, v), MathMax(MinDivisor, df(gp, v))))))

Iterations == 6

RECURSIVE Iterate(_, _, _)
Iterate(gp, v, n) == IF n = 0 THEN v ELSE Iterate(gp, NewtonStep(gp, v), n - 1)

\* v after the loop, for a point of grade gp.
SolveV(gp) == Iterate(gp, SeedSpeed(gp), Iterations)

dip(i) == IF i % 180 = 0 THEN Num(-6) ELSE IF i % 310 = 0 THEN Num(-10) ELSE Zero

whoosh(gp, i) == IF Lt(gp, Num(-4)) /\ i % 95 = 0 THEN Num(7) ELSE Zero

\* rnd is the value rng() returns for the point.
jitter(rnd) == Mul(Sub(rnd, Norm(5, -1)), Norm(6, -1))

SpeedFloor == Num(5)

\* Mutant: the result is not raised to the floor.
PointSpeed_NoFloor(gp, i, v, rnd) ==
  Add(Add(Add(Mul(v, MsToMph), dip(i)), whoosh(gp, i)), jitter(rnd))

\* The value the callback returns for the point: mph.
PointSpeed(gp, i, v, rnd) ==
  MathMax(SpeedFloor,
          Add(Add(Add(Mul(v, MsToMph), dip(i)), whoosh(gp, i)), jitter(rnd)))

----------------------------------------------------------------------------
(* pages/Landing.jsx, makeRoutePreview: the route's points and the grade   *)
(* of each, raw and smoothed.  Arrays are functions on 0..pts-1.           *)

\* The number of points of the route (1600 in the code).
pts == 6

Indices == 0..(pts - 1)

\* miles[i] = (i * totalMiles) / (pts - 1)
MilesOf(totalMiles) ==
  [i \in Indices |-> Div(Mul(Num(i), totalMiles), Num(pts - 1))]

FeetPerMile == Num(5280)

\* Mutant: the division is not guarded.
RawGradeAt_Unguarded(miles, elev_ft, i) ==
  Mul(Div(Div(Sub(elev_ft[i], elev_ft[i - 1]), FeetPerMile), Sub(miles[i], miles[i - 1])),
      Num(100))

\* grade[i] of the first loop, for i >= 1.
RawGradeAt(miles, elev_ft, i) ==
  LET de == Sub(elev_ft[i], elev_ft[i - 1])
      dx == Sub(miles[i], miles[i - 1])
  IN  IF Lt(Zero, dx) THEN Mul(Div(Div(de, FeetPerMile), dx), Num(100)) ELSE Zero

\* grade[i] of the second loop: the mean of the five entries around i, read
\* from the array as it is when the loop reaches i.
SmoothAt(grade, i) ==
  Div(Add(Add(Add(Add(grade[i - 2], grade[i - 1]), grade[i]), grade[i + 1]), grade[i + 2]),
      Num(5))

RECURSIVE RawLoop(_, _, _, _)
RawLoop(miles, elev_ft, grade, i) ==
  IF i >= pts THEN grade
  ELSE RawLoop(miles, elev_ft, [grade EXCEPT ![i] = RawGradeAt(miles, elev_ft, i)], i + 1)

RECURSIVE SmoothLoop(_, _)
SmoothLoop(grade, i) ==
  IF i >= pts - 2 THEN grade
  ELSE SmoothLoop([grade EXCEPT ![i] = SmoothAt(grade, i)], i + 1)

\* Mutant: one grade per pair of neighbours, pts - 1 of them.
GradesOf_PerPair(miles, elev_ft) ==
  [i \in 0..(pts - 2) |-> RawGradeAt(miles, elev_ft, i + 1)]

\* The grade array makeRoutePreview returns.
GradesOf(miles, elev_ft) ==
  SmoothLoop(RawLoop(miles, elev_ft, [i \in Indices |-> Zero], 1), 2)

----------------------------------------------------------------------------
(* The speed callback, one loop pass at a time. *)

\* Grades are taken in tenths of a percent, up to MaxGradePct percent.
MaxGradePct == 30

Grade(k) == Norm(k, -1)

GradeTenths == {10 * k : k \in -MaxGradePct..MaxGradePct} \cup (-46..-40)

\* Point indices: with both dips and the whoosh, with either, with none.
PointIdx == {0, 1, 95, 180, 310}

\* Values of rng(): the ends and the middle of [0, 1).
RngValues == {Zero, Norm(5, -1), Norm(999999, -6)}

\* The pages are not open while the preview generator is examined.
AppIdle ==
  /\ page = [route |-> "none"]
  /\ upload = NoUpload
  /\ result = NoResult
  /\ params = NoParams
  /\ net = {}
  /\ sent = <<>>
  /\ last = [ev |-> "none"]
  /\ agg = [pc |-> "idle"]
  /\ view = [mounted |-> FALSE]

NoPt == [pc |-> "idle"]

NoRp == [pc |-> "idle"]

NoArray == [i \in {} |-> Zero]

\* No call of makeRoutePreview yet.
NoPv ==
  [pc |-> "idle", totalMiles |-> Zero, seed |-> 0, rng |-> Word(0, 0), miles |-> NoArray,
   elev_ft |-> NoArray, grade |-> NoArray, speed |-> NoArray]

InitSolve ==
  /\ AppIdle
  /\ rp = NoRp
  /\ pv = NoPv
  /\ calls = <<>>
  /\ pt \in [pc : {"seed"}, gp : {Grade(k) : k \in GradeTenths}, i : PointIdx,
          v : {Zero}, t : {0}, speed : {Zero}]

\* let v = Math.max(2, v_flat + ...)
PtSeed ==
  /\ pt.pc = "seed"
  /\ pt' = [pt EXCEPT !.pc = "loop", !.v = SeedSpeed(pt.gp)]
  /\ UNCHANGED <<rp, pv, calls>>
  /\ UNCHANGED appVars

\* for (let t = 0; t < 6; t++) { ... }
PtIterate ==
  /\ pt.pc = "loop"
  /\ pt.t < Iterations
  /\ pt' = [pt EXCEPT !.v = NewtonStep(pt.gp, pt.v), !.t = pt.t + 1]
  /\ UNCHANGED <<rp, pv, calls>>
  /\ UNCHANGED appVars

\* jitter = (rng() - 0.5) * 0.6; return Math.max(5, v * 2.23694 + dip + whoosh + jitter)
PtReturn ==
  /\ pt.pc = "loop"
  /\ pt.t = Iterations
  /\ \E rnd \in RngValues :
       pt' = [pt EXCEPT !.pc = "done", !.speed = PointSpeed(pt.gp, pt.i, pt.v, rnd)]
  /\ UNCHANGED <<rp, pv, calls>>
  /\ UNCHANGED appVars

NextSolve == PtSeed \/ PtIterate \/ PtReturn

vars == <<pt, rp, pv, calls, page, upload, result, params, net, sent, last, agg, view>>

SpecSolve == InitSolve /\ [][NextSolve]_vars

----------------------------------------------------------------------------
(* makeRoutePreview(totalMiles, seed), and the chart data the landing page *)
(* builds from what it returns.                                            *)

MaxCalls == 2

PreviewMiles == {Num(85), Norm(1, -2)}

PreviewSeeds == {13, 1337, 2024}

InitPreview ==
  /\ AppIdle
  /\ pt = NoPt
  /\ rp = NoRp
  /\ pv = NoPv
  /\ calls = <<>>

\* const rng = mulberry32(seed); const miles = Array.from(...)
PvCall ==
  /\ pv.pc = "idle"
  /\ Len(calls) < MaxCalls
  /\ \E totalMiles \in PreviewMiles, seed \in PreviewSeeds :
       pv' = [NoPv EXCEPT !.pc = "noise", !.totalMiles = totalMiles, !.seed = seed,
                          !.rng = mulberry32(seed), !.miles = MilesOf(totalMiles)]
  /\ UNCHANGED <<pt, rp, calls>>
  /\ UNCHANGED appVars

\* base = noiseSeries(pts, rng, 18), bump = noiseSeries(pts, rng, 5);
\* elev_ft = base.map((b, i) => 60 * b + 25 * bump[i])
PvNoise ==
  /\ pv.pc = "noise"
  /\ LET base == noiseSeries(pts, pv.rng, 18)
         bump == noiseSeries(pts, base.seed, 5)
     IN  pv' = [pv EXCEPT !.pc = "grade", !.rng = bump.seed,
                          !.elev_ft = [i \in Indices |->
                                         Add(Mul(Num(60), base.o[i]), Mul(Num(25), bump.o[i]))]]
  /\ UNCHANGED <<pt, rp, calls>>
  /\ UNCHANGED appVars

\* The two loops that fill grade.
PvGrade ==
  /\ pv.pc = "grade"
  /\ pv' = [pv EXCEPT !.pc = "speed", !.grade = GradesOf(pv.miles, pv.elev_ft)]
  /\ UNCHANGED <<pt, rp, calls>>
  /\ UNCHANGED appVars

\* speed = grade.map((gp, i) => ...): the callback calls rng() once per point.
PvSpeed ==
  /\ pv.pc = "speed"
  /\ pv' = [pv EXCEPT !.pc = "return",
                      !.rng = SeedAfter(pv.rng, Cardinality(DOMAIN pv.grade)),
                      !.speed = [i \in DOMAIN pv.grade |->
                                   PointSpeed(pv.grade[i], i, SolveV(pv.grade[i]),
                                              RngCall(SeedAfter(pv.rng, i)).value)]]
  /\ UNCHANGED <<pt, rp, calls>>
  /\ UNCHANGED appVars

\* return { miles, speed, grade }
PvReturn ==
  /\ pv.pc = "return"
  /\ calls' = Append(calls, [totalMiles |-> pv.totalMiles, seed |-> pv.seed,
                             result |-> [miles |-> pv.miles, speed |-> pv.speed,
                                         grade |-> pv.grade]])
  /\ pv' = [pv EXCEPT !.pc = "idle"]
  /\ UNCHANGED <<pt, rp>>
  /\ UNCHANGED appVars

NextPreview == PvCall \/ PvNoise \/ PvGrade \/ PvSpeed \/ PvReturn

SpecPreview == InitPreview /\ [][NextPreview]_vars

\* xs.map((x, i) => ({ x, y: ys[i] })): reading past the end of ys gives undefined.
ChartPoints(xs, ys) ==
  [i \in DOMAIN xs |-> [x |-> xs[i], y |-> IF i \in DOMAIN ys THEN ys[i] ELSE Undefined]]

----------------------------------------------------------------------------
(* Claims about the speed callback. *)

Done == pt.pc = "done"

\* C1: for every grade between -30% and +30% the speed the callback returns
\* is a finite number, at least the floor of 5 mph.
C1_SpeedFiniteAboveFloor == Done => IsFinite(pt.speed) /\ Le(SpeedFloor, pt.speed)

\* A steep climb, where the solved speed in mph is below the floor, and the
\* steepest descent, where the loop leaves a very large v.
C1_Witness ==
  /\ Done
  /\ \/ Lt(Mul(pt.v, MsToMph), SpeedFloor) /\ pt.speed = SpeedFloor
     \/ pt.gp = Grade(-10 * MaxGradePct) /\ Lt(Num(1000), pt.v)

MphTolerance == Norm(1, -3)

\* C2: on level ground the loop ends at the flat speed: v in mph is within
\* 0.001 of flat_mph.
C2_FlatCalibration ==
  (pt.gp = Zero /\ pt.pc = "loop" /\ pt.t = Iterations)
    => Le(MathAbs(Sub(Mul(pt.v, MsToMph), flat_mph)), MphTolerance)

C2_Witness == pt.gp = Zero /\ pt.pc = "loop" /\ pt.t = Iterations /\ pt.v = v_flat

\* C3: the solved speed is strictly decreasing in the grade, after the loop
\* (physics) and for the heuristic speed the loop starts from.
C3_StrictlyDecreasingInGrade ==
  Done => \A k \in GradeTenths :
            Lt(pt.gp, Grade(k)) =>
              /\ Lt(SolveV(Grade(k)), pt.v)
              /\ Lt(SeedSpeed(Grade(k)), SeedSpeed(pt.gp))

----------------------------------------------------------------------------
(* The two grade loops, one pass at a time.  The elevations are those the  *)
(* noise can produce: neighbours differ by a few feet.                     *)

ElevValues == {Num(-3), Zero, Num(4)}

\* Route lengths: the landing page's 85 miles, a short route, an empty one.
TotalMilesValues == {Num(85), Norm(1, -2), Zero}

\* raw is a copy of the array as the first loop leaves it (history).
InitGrade ==
  /\ AppIdle
  /\ pt = NoPt
  /\ pv = NoPv
  /\ calls = <<>>
  /\ \E totalMiles \in TotalMilesValues, elev_ft \in [Indices -> ElevValues] :
       rp = [pc |-> "raw", miles |-> MilesOf(totalMiles), elev_ft |-> elev_ft,
             grade |-> [i \in Indices |-> Zero], i |-> 1,
             raw |-> [i \in Indices |-> Zero]]

\* for (let i = 1; i < pts; i++) grade[i] = dx > 0 ? ... : 0
GradeRaw ==
  /\ rp.pc = "raw"
  /\ rp.i < pts
  /\ rp' = [rp EXCEPT !.grade[rp.i] = RawGradeAt(rp.miles, rp.elev_ft, rp.i),
                      !.i = rp.i + 1]
  /\ UNCHANGED <<pt, pv, calls>>
  /\ UNCHANGED appVars

\* The first loop ends, the second starts at i = 2.
GradeRawEnd ==
  /\ rp.pc = "raw"
  /\ rp.i >= pts
  /\ rp' = [rp EXCEPT !.pc = "smooth", !.i = 2, !.raw = rp.grade]
  /\ UNCHANGED <<pt, pv, calls>>
  /\ UNCHANGED appVars

\* for (let i = 2; i < pts - 2; i++) grade[i] = (grade[i-2] + ... + grade[i+2]) / 5
GradeSmooth ==
  /\ rp.pc = "smooth"
  /\ rp.i < pts - 2
  /\ rp' = [rp EXCEPT !.grade[rp.i] = SmoothAt(rp.grade, rp.i), !.i = rp.i + 1]
  /\ UNCHANGED <<pt, pv, calls>>
  /\ UNCHANGED appVars

GradeSmoothEnd ==
  /\ rp.pc = "smooth"
  /\ rp.i >= pts - 2
  /\ rp' = [rp EXCEPT !.pc = "done"]
  /\ UNCHANGED <<pt, pv, calls>>
  /\ UNCHANGED appVars

NextGrade == GradeRaw \/ GradeRawEnd \/ GradeSmooth \/ GradeSmoothEnd

SpecGrade == InitGrade /\ [][NextGrade]_vars

----------------------------------------------------------------------------
(* Claims about makeRoutePreview. *)

SameArguments(a, b) == a.totalMiles = b.totalMiles /\ a.seed = b.seed

\* C4: two calls of makeRoutePreview with the same route length and the same
\* seed return the same miles, speed and grade series.
C4_SameInputsSameSeries ==
  \A a \in 1..Len(calls), b \in 1..Len(calls) :
    SameArguments(calls[a], calls[b]) => calls[a].result = calls[b].result

\* Two calls with the same arguments have returned, one after the other.
C4_Witness ==
  /\ Len(calls) >= 2
  /\ SameArguments(calls[1], calls[2])
  /\ calls[1].result.speed = calls[2].result.speed

ApproxEq(x, y) ==
  /\ x.fin
  /\ y.fin
  /\ Le(MathAbs(Sub(x, y)), Add(Mul(Norm(1, -4), MathAbs(y)), Norm(1, -9)))

RawDone == rp.pc \in {"smooth", "done"}

\* C5: after the first loop, the grade of each pair of neighbours i-1, i whose
\* distance dx is positive is 100 * de / (5280 * dx), and it is exactly 0 when
\* dx is not positive; every grade is a finite number (nothing was divided by
\* zero).
C5_RawGrade ==
  RawDone =>
    \A i \in 1..(pts - 1) :
      LET de == Sub(rp.elev_ft[i], rp.elev_ft[i - 1])
          dx == Sub(rp.miles[i], rp.miles[i - 1])
      IN  /\ rp.raw[i].fin
          /\ IF Lt(Zero, dx)
             THEN ApproxEq(Mul(Mul(rp.raw[i], dx), FeetPerMile), Mul(Num(100), de))
             ELSE rp.raw[i] = Zero

\* A route of positive length with a climb between two neighbours.
C5_Witness ==
  /\ RawDone
  /\ \E i \in 1..(pts - 1) :
       /\ Lt(Zero, Sub(rp.miles[i], rp.miles[i - 1]))
       /\ Lt(Zero, Sub(rp.elev_ft[i], rp.elev_ft[i - 1]))
       /\ Lt(Zero, rp.raw[i])

Min(a, b) == IF a < b THEN a ELSE b

Max(a, b) == IF a > b THEN a ELSE b

RECURSIVE SumRange(_, _, _)
SumRange(a, lo, hi) == IF lo > hi THEN Zero ELSE Add(a[lo], SumRange(a, lo + 1, hi))

\* The mean of a over the entries within 2 of i that exist.
WindowMean(a, i) ==
  LET lo == Max(0, i - 2)
      hi == Min(pts - 1, i + 2)
  IN  Div(SumRange(a, lo, hi), Num(hi - lo + 1))

\* C6: every smoothed grade is the mean of the raw grades within 2 samples of
\* it, over the samples that exist at either end of the route.
C6_SmoothedIsMeanOfRawWindow ==
  rp.pc = "done" => \A i \in Indices : ApproxEq(rp.grade[i], WindowMean(rp.raw, i))

\* C7: the miles, speed and grade series a call returns have one entry per
\* point of the route, miles is in ascending order, and the chart data built
\* from them has a speed and a grade for every distance.
C7_SeriesSameLength ==
  \A c \in 1..Len(calls) :
    LET r == calls[c].result
    IN  /\ DOMAIN r.miles = Indices
        /\ DOMAIN r.speed = Indices
        /\ DOMAIN r.grade = Indices
        /\ \A i \in 1..(pts - 1) : Le(r.miles[i - 1], r.miles[i])
        /\ \A i \in DOMAIN r.miles :
             /\ ChartPoints(r.miles, r.speed)[i].y # Undefined
             /\ ChartPoints(r.miles, r.grade)[i].y # Undefined

\* A call has returned a route of positive length.
C7_Witness ==
  /\ Len(calls) >= 1
  /\ Lt(calls[1].result.miles[0], calls[1].result.miles[pts - 1])
  /\ ChartPoints(calls[1].result.miles, calls[1].result.speed)[pts - 1].y
       = calls[1].result.speed[pts - 1]

----------------------------------------------------------------------------
(* UploadForm, the Result page and its ParamsForm: the handlers that send   *)
(* a request and the steps that settle it.  The server is not part of the   *)
(* frontend: a request succeeds with any body of the response sets below,   *)
(* or fails.                                                                *)

\* Analyze requests of one UploadForm.
MaxAnalyzes == 2

\* Recompute requests of one result page.
MaxRecomputes == 2

\* The requests of a kind among those sent.
SentOf(kind) == {i \in 1..Len(sent) : sent[i].kind = kind}

\* Edits of the fields of one form.
MaxEdits == 1

\* Mutant: one default for every field.
DefaultOf_Same(k) == Num(15)

\* useState(initial.k ?? d): the defaults d of ParamsForm.
DefaultOf(k) ==
  CASE k = "flat_mph" -> Num(15)
    [] k = "rider_kg" -> Num(75)
    [] k = "bike_kg" -> Num(10)
    [] k = "cda" -> Norm(3, -1)
    [] k = "crr" -> Norm(4, -3)
    [] k = "wind_mph" -> Zero

\* A value of field k that is none of the defaults.
SampleOf(k) ==
  CASE k = "flat_mph" -> Num(20)
    [] k = "physics" -> Bool(TRUE)
    [] k = "rider_kg" -> Num(80)
    [] k = "bike_kg" -> Num(8)
    [] k = "cda" -> Norm(28, -2)
    [] k = "crr" -> Norm(5, -3)
    [] k = "wind_mph" -> Num(6)

\* An analysis of the server in which the fields of S are reported.  The
\* other fields are absent, or null, or ("spread") params_used names all
\* seven fields itself and the others are null in it.
AnalysisOf(id, S, mode) ==
  LET missing == IF mode = "absent" THEN Undefined ELSE Null
      own == IF mode = "spread" THEN Fields
             ELSE IF mode = "null" THEN NumericFields \ {"flat_mph"}
             ELSE (S \cap NumericFields) \ {"flat_mph"}
  IN  [id |-> id,
       flat_target_mph |-> IF "flat_mph" \in S \/ mode = "spread" THEN Num(18) ELSE missing,
       physics_used |-> IF "physics" \in S \/ mode = "spread" THEN Bool(TRUE) ELSE missing,
       params_used |-> IF own = {} THEN Undefined
                       ELSE [k \in own |-> IF k \in S THEN SampleOf(k) ELSE Null]]

\* The analyses the result page can be opened with.
AnalysisValues ==
  {AnalysisOf(0, S, mode) : S \in SUBSET Fields, mode \in {"absent", "null", "spread"}}

\* The analyses a response can hold.
ServerAnalyses ==
  {AnalysisOf(1, Fields, "absent"), AnalysisOf(2, {"rider_kg", "cda"}, "absent")}

\* The response of /api/analyze and /api/result for a file.
DataOf(file_id, analysis) ==
  [file_id |-> Str(file_id), filename |-> Str("ride.gpx"), geojson |-> Str("route"),
   analysis |-> analysis]

FileIds == {"a1", "b 2"}

ErrorBody == [error |-> Str("failed")]

\* initial={{ flat_mph: analysis.flat_target_mph, physics: analysis.physics_used,
\*            ...analysis.params_used }}
InitialOf(analysis) ==
  LET pu == Get(analysis, "params_used")
      own == IF "fin" \in DOMAIN pu THEN {} ELSE DOMAIN pu
  IN  [k \in {"flat_mph", "physics"} \cup own |->
         IF k \in own THEN pu[k]
         ELSE IF k = "flat_mph" THEN Get(analysis, "flat_target_mph")
         ELSE Get(analysis, "physics_used")]

\* The state of a ParamsForm after its first render with the props initial.
ParamsMount(initial) ==
  [mounted |-> TRUE,
   initial |-> initial,
   fields |-> [k \in Fields |->
                 IF k = "physics" THEN Bool(Truthy(Get(initial, "physics")))
                 ELSE Coalesce(Get(initial, k), DefaultOf(k))],
   busy |-> FALSE,
   edited |-> {}]

\* The ParamsForm the result page renders: none while it shows "Loading".
ParamsRender(res, form) ==
  IF Truthy(res.data) /\ Truthy(res.analysis)
  THEN (IF form.mounted THEN form ELSE ParamsMount(InitialOf(res.analysis)))
  ELSE NoParams

\* The state of the Result page after its first render at a location: its
\* useState values, the effects that wait to run (effect: the load effect,
\* draw: the chart effect), the charts that are alive on the two canvases and
\* the number of charts made so far.
ResultMount(fileId, state) ==
  [mounted |-> TRUE,
   fileId |-> fileId,
   data |-> IF Truthy(state) THEN state ELSE Null,
   analysis |-> IF Truthy(Get(state, "analysis")) THEN Get(state, "analysis") ELSE Null,
   effect |-> TRUE,
   first |-> IF Truthy(state) THEN state ELSE Null,
   chart1 |-> Null,
   chart2 |-> Null,
   draw |-> TRUE,
   canvas |-> [speedChart |-> {}, gradeChart |-> {}],
   made |-> 0,
   videoURL |-> Null,
   busyVideo |-> FALSE]

\* The state of UploadForm after its first render.
UploadMount ==
  [mounted |-> TRUE,
   file |-> Null,
   fields |-> [k \in Fields |-> IF k = "physics" THEN Bool(FALSE) ELSE DefaultOf(k)],
   busy |-> FALSE,
   edited |-> {}]

Request(kind, body, before) == [kind |-> kind, body |-> body, before |-> before]

Event(ev, before, resp) == [ev |-> ev, before |-> before, resp |-> resp]

\* The planner page is open, or the result page was opened by its address.
InitApp ==
  /\ pt = NoPt /\ rp = NoRp /\ pv = NoPv /\ calls = <<>>
  /\ agg = [pc |-> "idle"]
  /\ view = [mounted |-> FALSE]
  /\ net = {}
  /\ sent = <<>>
  /\ last = Event("open", Null, Null)
  /\ params = NoParams
  /\ \/ /\ page = [route |-> "planner", fileId |-> Undefined, state |-> Null]
        /\ upload = UploadMount
        /\ result = NoResult
     \/ /\ \E id \in FileIds : page = [route |-> "result", fileId |-> Str(id), state |-> Null]
        /\ upload = NoUpload
        /\ result = ResultMount(page.fileId, page.state)

\* onChange={(e) => setFile(e.target.files[0])}
UploadSetFile ==
  /\ upload.mounted
  /\ \E file \in {Str("ride.gpx"), Undefined} :
       /\ upload' = [upload EXCEPT !.file = file]
       /\ last' = Event("setFile", Null, Null)
  /\ UNCHANGED <<page, result, params, net, sent>>
  /\ UNCHANGED previewVars

\* onChange={(e) => setFlat(e.target.value)}, and the same for the other
\* numeric fields; onChange={(e) => setPhysics(e.target.checked)}.
SetField(form, k, b, text) ==
  [form EXCEPT !.fields[k] = IF k = "physics" THEN Bool(b) ELSE Str(text),
               !.edited = @ \cup {k}]

UploadSetField ==
  /\ upload.mounted
  /\ Cardinality(upload.edited) < MaxEdits
  /\ \E k \in Fields, b \in BOOLEAN, text \in InputTexts :
       upload' = SetField(upload, k, b, text)
  /\ last' = Event("setField", Null, Null)
  /\ UNCHANGED <<page, result, params, net, sent>>
  /\ UNCHANGED previewVars

\* Mutant: the submit button is not disabled while a submission runs.
CanSubmit_WhileBusy(form) == form.mounted

\* <button disabled={busy}>: a form that is rendered and not busy can be
\* submitted.
CanSubmit(form) == form.mounted /\ ~form.busy

\* The form data of submit: the file, and String() of every field.
AnalyzeForm(form) ==
  [k \in Fields \cup {"gpx"} |->
     IF k = "gpx" THEN form.file ELSE Str(String(form.fields[k]))]

\* UploadForm.submit up to its await; the button is disabled while busy.
UploadSubmit ==
  /\ CanSubmit(upload)
  /\ Cardinality(SentOf("analyze")) < MaxAnalyzes
  /\ IF ~Truthy(upload.file)
     THEN /\ last' = Event("submitWithoutFile", Null, Null)
          /\ UNCHANGED <<upload, net, sent>>
     ELSE LET req == Request("analyze", AnalyzeForm(upload), Null)
          IN  /\ upload' = [upload EXCEPT !.busy = TRUE]
              /\ net' = net \cup {req}
              /\ sent' = Append(sent, req)
              /\ last' = Event("analyze", Null, Null)
  /\ UNCHANGED <<page, result, params>>
  /\ UNCHANGED previewVars

\* encodeURIComponent(s), for the file ids of the model.
encodeURIComponent(s) == IF s = "b 2" THEN "b%202" ELSE s

\* The value useParams gives for a segment of the path.
useParams(segment) == IF segment = "b%202" THEN "b 2" ELSE segment

\* Mutant: nav is called after the try block, for a failed request as well.
submit_NavAfterTry(loc, settled) ==
  [route |-> "result",
   fileId |-> Str(useParams(encodeURIComponent(String(Get(settled.data, "file_id"))))),
   state |-> settled.data]

\* The location after the await of submit: nav("/result/" + file_id, { state:
\* data }) when the request succeeded, and no navigation when it threw.
submit(loc, settled) ==
  IF settled.ok
  THEN [route |-> "result",
        fileId |-> Str(useParams(encodeURIComponent(String(Get(settled.data, "file_id"))))),
        state |-> settled.data]
  ELSE loc

\* What the await of submit leaves when the request settled, and the finally
\* block: the result page is rendered when the location changed.
UploadSettle(req, settled) ==
  /\ net' = net \ {req}
  /\ page' = submit(page, settled)
  /\ IF page'.route = "result"
     THEN /\ upload' = NoUpload
          /\ result' = ResultMount(page'.fileId, page'.state)
          /\ params' = ParamsRender(result', NoParams)
     ELSE /\ upload' = [upload EXCEPT !.busy = FALSE]
          /\ UNCHANGED <<result, params>>

\* The analyze request succeeds: const { data } = await axios.post(...); nav(...)
AnalyzeOk ==
  \E req \in net, id \in FileIds, a \in ServerAnalyses :
    LET settled == [ok |-> TRUE, data |-> DataOf(id, a)]
    IN  /\ req.kind = "analyze"
        /\ UploadSettle(req, settled)
        /\ last' = Event("analyzeOk", Null, settled.data)
        /\ UNCHANGED sent
        /\ UNCHANGED previewVars

\* The analyze request fails: catch (err) { alert(...) }
AnalyzeFail ==
  \E req \in net :
    LET settled == [ok |-> FALSE, data |-> ErrorBody]
    IN  /\ req.kind = "analyze"
        /\ UploadSettle(req, settled)
        /\ last' = Event("analyzeFailed", Null, settled.data)
        /\ UNCHANGED sent
        /\ UNCHANGED previewVars

\* useEffect(() => { if (data) return; axios.get("/api/result", ...) }, [data, fileId])
ResultLoad ==
  /\ result.mounted
  /\ result.effect
  /\ result' = [result EXCEPT !.effect = FALSE]
  /\ IF Truthy(result.data)
     THEN /\ last' = Event("loaded", Null, Null)
          /\ UNCHANGED <<net, sent>>
     ELSE LET req == Request("result", [file_id |-> result.fileId], Null)
          IN  /\ net' = net \cup {req}
              /\ sent' = Append(sent, req)
              /\ last' = Event("load", Null, Null)
  /\ UNCHANGED <<page, upload, params>>
  /\ UNCHANGED previewVars

\* .then(({ data }) => { setData(data); setAnalysis(data.analysis); })
LoadOk ==
  \E req \in net, a \in ServerAnalyses :
    LET data == DataOf(req.body.file_id.str, a)
    IN  /\ req.kind = "result"
        /\ net' = net \ {req}
        /\ result' = [result EXCEPT !.data = data, !.analysis = Get(data, "analysis"),
                                    !.effect = TRUE, !.first = data, !.draw = TRUE]
        /\ params' = ParamsRender(result', params)
        /\ last' = Event("loadOk", Null, data)
        /\ UNCHANGED <<page, upload, sent>>
        /\ UNCHANGED previewVars

\* .catch((err) => alert(...))
LoadFail ==
  \E req \in net :
    /\ req.kind = "result"
    /\ net' = net \ {req}
    /\ last' = Event("loadFailed", Null, ErrorBody)
    /\ UNCHANGED <<page, upload, result, params, sent>>
    /\ UNCHANGED previewVars

\* The onChange handlers of ParamsForm.
ParamsSetField ==
  /\ params.mounted
  /\ Cardinality(params.edited) < MaxEdits
  /\ \E k \in Fields, b \in BOOLEAN, text \in InputTexts :
       params' = SetField(params, k, b, text)
  /\ last' = Event("setField", Null, Null)
  /\ UNCHANGED <<page, upload, result, net, sent>>
  /\ UNCHANGED previewVars

\* The object ParamsForm.submit passes to onRecompute.
RecomputeParams(form) ==
  [k \in Fields |-> IF k = "physics" THEN form.fields[k] ELSE Number(form.fields[k])]

\* ParamsForm.submit and onRecompute up to the await of axios.post; the
\* button is disabled while busy.
ParamsSubmit ==
  /\ CanSubmit(params)
  /\ Cardinality(SentOf("recompute")) < MaxRecomputes
  /\ LET req == Request("recompute",
                        [file_id |-> result.fileId, params |-> RecomputeParams(params)],
                        [analysis |-> result.analysis, initial |-> params.initial,
                         edited |-> params.edited])
     IN  /\ net' = net \cup {req}
         /\ sent' = Append(sent, req)
  /\ params' = [params EXCEPT !.busy = TRUE]
  /\ last' = Event("recompute", Null, Null)
  /\ UNCHANGED <<page, upload, result>>
  /\ UNCHANGED previewVars

\* Mutant: the response of a failed request is used as well.
onRecompute_NoThrow(res, settled) == [res EXCEPT !.analysis = Get(settled.data, "analysis")]

\* Mutant: the response replaces the stored data as well.
onRecompute_SetsData(res, settled) ==
  IF settled.ok
  THEN [res EXCEPT !.analysis = Get(settled.data, "analysis"), !.data = settled.data]
  ELSE res

\* The state of the result page after the await of onRecompute: const { data:
\* resp } = await axios.post(...) throws when the request failed, and
\* setAnalysis(resp.analysis) runs when it succeeded.
onRecompute(res, settled) ==
  IF settled.ok
  THEN [res EXCEPT !.analysis = Get(settled.data, "analysis"), !.draw = TRUE]
  ELSE res

\* Mutant: setBusy(false) follows the await and is not in a finally block.
RecomputeSettle_NoFinally(req, settled) ==
  /\ net' = net \ {req}
  /\ result' = onRecompute(result, settled)
  /\ params' = ParamsRender(result', IF settled.ok THEN [params EXCEPT !.busy = FALSE]
                                     ELSE params)

\* What the await of onRecompute leaves when the request settled, and the
\* finally block of ParamsForm.submit.
RecomputeSettle(req, settled) ==
  /\ net' = net \ {req}
  /\ result' = onRecompute(result, settled)
  /\ params' = ParamsRender(result', [params EXCEPT !.busy = FALSE])

\* The recompute request succeeds.
RecomputeOk ==
  \E req \in net, a \in ServerAnalyses :
    LET settled == [ok |-> TRUE, data |-> [analysis |-> a]]
    IN  /\ req.kind = "recompute"
        /\ RecomputeSettle(req, settled)
        /\ last' = Event("recomputeOk", req.before.analysis, settled.data)
        /\ UNCHANGED <<page, upload, sent>>
        /\ UNCHANGED previewVars

\* The recompute request fails: the await throws, and submit rejects.
RecomputeFail ==
  \E req \in net :
    LET settled == [ok |-> FALSE, data |-> ErrorBody]
    IN  /\ req.kind = "recompute"
        /\ RecomputeSettle(req, settled)
        /\ last' = Event("recomputeFailed", req.before.analysis, settled.data)
        /\ UNCHANGED <<page, upload, sent>>
        /\ UNCHANGED previewVars

NextApp ==
  \/ UploadSetFile
  \/ UploadSetField
  \/ UploadSubmit
  \/ AnalyzeOk
  \/ AnalyzeFail
  \/ ResultLoad
  \/ LoadOk
  \/ LoadFail
  \/ ParamsSetField
  \/ ParamsSubmit
  \/ RecomputeOk
  \/ RecomputeFail

SpecApp == InitApp /\ [][NextApp]_vars

\* The result page is open with an analysis, and its ParamsForm is rendered.
InitForm ==
  /\ pt = NoPt /\ rp = NoRp /\ pv = NoPv /\ calls = <<>>
  /\ agg = [pc |-> "idle"]
  /\ view = [mounted |-> FALSE]
  /\ net = {}
  /\ sent = <<>>
  /\ last = Event("open", Null, Null)
  /\ upload = NoUpload
  /\ \E a \in AnalysisValues :
       /\ page = [route |-> "result", fileId |-> Str("a1"), state |-> DataOf("a1", a)]
       /\ result = [ResultMount(page.fileId, page.state) EXCEPT !.effect = FALSE]
       /\ params = ParamsRender(result, NoParams)

NextForm == ParamsSetField \/ ParamsSubmit \/ RecomputeOk \/ RecomputeFail

SpecForm == InitForm /\ [][NextForm]_vars

----------------------------------------------------------------------------
(* Claims about the forms and the result page. *)

\* C8: every recompute request carries the seven fields flat_mph, physics,
\* rider_kg, bike_kg, cda, crr and wind_mph, each with a value; and a field
\* that the initial values of the form do not have, and that was not edited,
\* carries its own default (15, false, 75, 10, 0.3, 0.004, 0), whichever other
\* fields the initial values have.
C8_RecomputeCarriesAllFields ==
  LET defaults == [flat_mph |-> Num(15), physics |-> Bool(FALSE), rider_kg |-> Num(75),
                   bike_kg |-> Num(10), cda |-> Norm(3, -1), crr |-> Norm(4, -3),
                   wind_mph |-> Zero]
  IN  \A i \in SentOf("recompute") :
        LET config == sent[i].body.params
            before == sent[i].before
        IN  /\ DOMAIN config = Fields
            /\ \A k \in Fields :
                 /\ config[k] # Undefined
                 /\ IF k = "physics" THEN "bool" \in DOMAIN config[k] ELSE IsNumber(config[k])
                 /\ (Get(before.initial, k) = Undefined /\ k \notin before.edited)
                      => config[k] = defaults[k]

\* A request was sent by a form whose initial values have bike_kg and lack
\* rider_kg.
C8_Witness ==
  \E i \in SentOf("recompute") :
    /\ Get(sent[i].before.initial, "rider_kg") = Undefined
    /\ Get(sent[i].before.initial, "bike_kg") = Num(8)
    /\ sent[i].before.edited = {"cda"}
    /\ sent[i].body.params.rider_kg = Num(75)
    /\ sent[i].body.params.bike_kg = Num(8)

\* C9: right after a recompute request failed, the analysis of the result
\* page is the one it held when the request was sent; right after an analyze
\* request failed, the planner page is still shown and no result page is
\* rendered.
C9_FailureLeavesNoPartialResult ==
  /\ last.ev = "recomputeFailed" =>
       /\ result.analysis = last.before
       /\ params.mounted
  /\ last.ev = "analyzeFailed" =>
       /\ page.route = "planner"
       /\ ~result.mounted

\* A recompute failed after an earlier one had replaced the analysis, on a
\* result page that was entered after a failed and a successful analyze.
C9_Witness ==
  /\ last.ev = "recomputeFailed"
  /\ Cardinality(SentOf("analyze")) = 2
  /\ Cardinality(SentOf("recompute")) = 2
  /\ result.analysis # result.data.analysis

\* C10: on a result page that sent recompute requests, the stored data is the
\* data the page was opened with or loaded (its geojson, filename and file
\* id), and the file id of the page is the one of the route; right after a
\* recompute succeeded, the analysis is the analysis of the response, all of
\* it and nothing else.
C10_RecomputeReplacesOnlyAnalysis ==
  /\ (result.mounted /\ SentOf("recompute") # {}) =>
       /\ result.data = result.first
       /\ \A k \in {"geojson", "filename", "file_id"} :
            Get(result.data, k) = Get(result.first, k) /\ Get(result.data, k) # Undefined
       /\ result.fileId = page.fileId
  /\ last.ev = "recomputeOk" => result.analysis = last.resp.analysis

\* Two recomputes with different configs succeeded, each with an analysis
\* other than the one it replaced.
C10_Witness ==
  /\ last.ev = "recomputeOk"
  /\ Cardinality(SentOf("recompute")) = 2
  /\ \A i \in SentOf("recompute"), j \in SentOf("recompute") :
       i # j => sent[i].body.params # sent[j].body.params
  /\ last.before # result.analysis
  /\ last.before # result.data.analysis

----------------------------------------------------------------------------
(* The aggregation of an analysis (totals and splits by grade bucket).  It  *)
(* runs in the backend, whose code is not among the frontend sources: it    *)
(* is written here after the specification of the aggregator.  The result   *)
(* page shows its result as it is.                                          *)

\* Segments of one route.
NSeg == 3

\* The labels of the grade buckets, in ascending order of grade.
Buckets == <<"<-6%", "-6to-3%", "-3to0%", "0to3%", "3to6%", ">6%">>

\* Mutant: the grades on a boundary belong to no bucket.
BucketOf_OpenRanges(grade_pct) ==
  IF Lt(grade_pct, Num(-6)) THEN 1
  ELSE IF Lt(Num(-6), grade_pct) /\ Lt(grade_pct, Num(-3)) THEN 2
  ELSE IF Lt(Num(-3), grade_pct) /\ Lt(grade_pct, Zero) THEN 3
  ELSE IF Lt(Zero, grade_pct) /\ Lt(grade_pct, Num(3)) THEN 4
  ELSE IF Lt(Num(3), grade_pct) /\ Lt(grade_pct, Num(6)) THEN 5
  ELSE IF Lt(Num(6), grade_pct) THEN 6
  ELSE 0

\* The bucket of a segment: its index in Buckets.
BucketOf(grade_pct) ==
  IF Lt(grade_pct, Num(-6)) THEN 1
  ELSE IF Lt(grade_pct, Num(-3)) THEN 2
  ELSE IF Lt(grade_pct, Zero) THEN 3
  ELSE IF Lt(grade_pct, Num(3)) THEN 4
  ELSE IF Le(grade_pct, Num(6)) THEN 5
  ELSE 6

\* Segments of a route: length in miles, smoothed grade, solved speed.
SegmentValues ==
  {[dx |-> Norm(25, -2), grade_pct |-> Num(-8), speed_mph |-> Num(31)],
   [dx |-> Norm(15, -1), grade_pct |-> Num(-6), speed_mph |-> Num(28)],
   [dx |-> Norm(25, -2), grade_pct |-> Norm(-45, -1), speed_mph |-> Num(24)],
   [dx |-> Norm(15, -1), grade_pct |-> Num(-3), speed_mph |-> Num(21)],
   [dx |-> Norm(25, -2), grade_pct |-> Zero, speed_mph |-> Num(15)],
   [dx |-> Norm(15, -1), grade_pct |-> Num(1), speed_mph |-> Num(14)],
   [dx |-> Zero, grade_pct |-> Num(3), speed_mph |-> Num(12)],
   [dx |-> Norm(15, -1), grade_pct |-> Num(6), speed_mph |-> Num(9)],
   [dx |-> Norm(25, -2), grade_pct |-> Num(7), speed_mph |-> Num(5)]}

\* Mutant: the average is the mean of the speeds of the segments.
AverageOf_MeanOfSpeeds(segs, distance_mi, pred_time_h) ==
  LET sum[i \in 0..Len(segs)] == IF i = 0 THEN Zero ELSE Add(sum[i - 1], segs[i].speed_mph)
  IN  Div(sum[Len(segs)], Num(Len(segs)))

\* The predicted average speed: total distance / total time.
AverageOf(segs, distance_mi, pred_time_h) == Div(distance_mi, pred_time_h)

\* What the result page shows of an analysis: the summary panel, and one row
\* of the splits table for each split.
Shown(analysis) ==
  [distance_mi |-> analysis.distance_mi,
   pred_time_h |-> analysis.pred_time_h,
   pred_avg_mph |-> analysis.pred_avg_mph,
   rows |-> [i \in DOMAIN analysis.splits |->
               [bucket |-> analysis.splits[i].bucket,
                miles |-> analysis.splits[i].miles,
                avg_mph |-> analysis.splits[i].avg_mph,
                pace |-> Coalesce(analysis.splits[i].pace_min_per_mile, Str("-"))]]]

InitAggregate ==
  /\ pt = NoPt /\ rp = NoRp /\ pv = NoPv /\ calls = <<>>
  /\ page = [route |-> "none"]
  /\ upload = NoUpload
  /\ result = NoResult
  /\ params = NoParams
  /\ net = {}
  /\ sent = <<>>
  /\ last = [ev |-> "none"]
  /\ view = [mounted |-> FALSE]
  /\ \E segs \in [1..NSeg -> SegmentValues] :
       agg = [pc |-> "fold", segs |-> segs, i |-> 1,
              miles |-> [b \in DOMAIN Buckets |-> Zero],
              hours |-> [b \in DOMAIN Buckets |-> Zero],
              distance_mi |-> Zero, pred_time_h |-> Zero]

\* One segment: its time is distance / speed; both are added to the totals
\* and to the sums of its bucket.
AggFold ==
  /\ agg.pc = "fold"
  /\ agg.i <= Len(agg.segs)
  /\ LET seg == agg.segs[agg.i]
         time == Div(seg.dx, seg.speed_mph)
         b == BucketOf(seg.grade_pct)
     IN  agg' = [agg EXCEPT
                   !.i = @ + 1,
                   !.distance_mi = Add(@, seg.dx),
                   !.pred_time_h = Add(@, time),
                   !.miles = [k \in DOMAIN @ |-> IF k = b THEN Add(@[k], seg.dx) ELSE @[k]],
                   !.hours = [k \in DOMAIN @ |-> IF k = b THEN Add(@[k], time) ELSE @[k]]]
  /\ UNCHANGED <<pt, rp, pv, calls, page, upload, result, params, net, sent, last, view>>

\* The analysis: the totals, and one split for each bucket in the order of
\* the buckets, with no pace where the bucket has no miles.
AggFinish ==
  /\ agg.pc = "fold"
  /\ agg.i > Len(agg.segs)
  /\ LET avg(b) == IF Lt(Zero, agg.miles[b]) THEN Div(agg.miles[b], agg.hours[b]) ELSE Zero
         analysis ==
           [distance_mi |-> agg.distance_mi,
            pred_time_h |-> agg.pred_time_h,
            pred_avg_mph |-> AverageOf(agg.segs, agg.distance_mi, agg.pred_time_h),
            splits |-> [b \in DOMAIN Buckets |->
                          [bucket |-> Str(Buckets[b]),
                           miles |-> agg.miles[b],
                           avg_mph |-> avg(b),
                           pace_min_per_mile |->
                             IF Lt(Zero, avg(b)) THEN Div(Num(60), avg(b)) ELSE Null]]]
     IN  agg' = [pc |-> "done", segs |-> agg.segs, analysis |-> analysis,
                 shown |-> Shown(analysis)]
  /\ UNCHANGED <<pt, rp, pv, calls, page, upload, result, params, net, sent, last, view>>

NextAggregate == AggFold \/ AggFinish

SpecAggregate == InitAggregate /\ [][NextAggregate]_vars

\* The sum of a[lo], ..., a[hi], in this order.
SumOver(a, lo, hi) ==
  LET sum[i \in (lo - 1)..hi] == IF i < lo THEN Zero ELSE Add(sum[i - 1], a[i])
  IN  sum[hi]

\* C11: the miles of the rows of the splits table add up to the distance of
\* the route, within rounding, and each segment's miles are in the row of one
\* bucket: the row of a bucket has the miles of the segments whose grade is in
\* the bucket's range.
C11_SplitMilesSumToDistance ==
  agg.pc = "done" =>
    LET rows == agg.shown.rows
        total == SumOver([i \in 1..Len(agg.segs) |-> agg.segs[i].dx], 1, Len(agg.segs))
    IN  /\ ApproxEq(SumOver([b \in DOMAIN rows |-> rows[b].miles], 1, Len(Buckets)), total)
        /\ ApproxEq(agg.shown.distance_mi, total)
        /\ \A b \in DOMAIN Buckets :
             /\ rows[b].bucket = Str(Buckets[b])
             /\ ApproxEq(rows[b].miles,
                         SumOver([i \in 1..Len(agg.segs) |->
                                    IF BucketOf(agg.segs[i].grade_pct) = b
                                    THEN agg.segs[i].dx ELSE Zero], 1, Len(agg.segs)))

\* A route with segments on the boundaries -6% and 6% and one inside a bucket.
C11_Witness ==
  /\ agg.pc = "done"
  /\ \E i \in DOMAIN agg.segs : agg.segs[i].grade_pct = Num(6)
  /\ \E i \in DOMAIN agg.segs : agg.segs[i].grade_pct = Num(-6)
  /\ Lt(Zero, agg.shown.rows[6].miles)
  /\ agg.shown.distance_mi = Norm(325, -2)

\* The arithmetic mean of the speeds of the segments.
MeanSpeed(segs) ==
  Div(SumOver([i \in 1..Len(segs) |-> segs[i].speed_mph], 1, Len(segs)), Num(Len(segs)))

\* The segments have one positive length, and not all the same speed.
EvenAndVarying(segs) ==
  /\ \A i \in DOMAIN segs : segs[i].dx = segs[1].dx /\ Lt(Zero, segs[i].dx)
  /\ \E i \in DOMAIN segs : segs[i].speed_mph # segs[1].speed_mph

\* C12: for a route of positive length, the predicted average speed shown is
\* the distance shown divided by the predicted time shown, the predicted time
\* is the sum of distance / speed over the segments, and the average is not
\* the arithmetic mean of the speeds: it is below that mean when the segments
\* have one length and different speeds.
C12_AverageIsDistanceOverTime ==
  (agg.pc = "done" /\ Lt(Zero, agg.shown.distance_mi)) =>
    LET segs == agg.segs
        shown == agg.shown
    IN  /\ shown.pred_avg_mph.fin
        /\ shown.pred_avg_mph = Div(shown.distance_mi, shown.pred_time_h)
        /\ ApproxEq(shown.pred_time_h,
                    SumOver([i \in 1..Len(segs) |-> Div(segs[i].dx, segs[i].speed_mph)],
                            1, Len(segs)))
        /\ ApproxEq(Mul(shown.pred_avg_mph, shown.pred_time_h), shown.distance_mi)
        /\ EvenAndVarying(segs) => Lt(shown.pred_avg_mph, MeanSpeed(segs))

\* A route of three quarter-mile segments ridden at 31, 15 and 5 mph.
C12_Witness ==
  /\ agg.pc = "done"
  /\ EvenAndVarying(agg.segs)
  /\ {agg.segs[i].speed_mph : i \in DOMAIN agg.segs} = {Num(31), Num(15), Num(5)}
  /\ Lt(agg.shown.pred_avg_mph, Num(11))
  /\ Lt(Num(16), MeanSpeed(agg.segs))

----------------------------------------------------------------------------
(* Claims about the iteration of the speed callback. *)

AfterLoop == pt.pc = "loop" /\ pt.t = Iterations

\* The residual of the power balance that counts as converged: 5% of P.
SolverTolerance == Norm(5, -2)

\* C13: for every grade from -25% to +25%, the speed after the six iterations
\* satisfies v * (rolling + gravity + aero) = P within the solver tolerance.
C13_ConvergedAfterIterations ==
  (AfterLoop /\ Le(Num(-25), pt.gp) /\ Le(pt.gp, Num(25))) =>
    /\ IsFinite(pt.v)
    /\ Le(MathAbs(f(pt.gp, pt.v)), Mul(SolverTolerance, P))

\* The slope of f at v: the central difference quotient with h = v / 10,
\* which for this cubic f is above its derivative by 0.5 * rho * CdA * h^2.
SlopeOf_f(gp, v) ==
  LET h == Div(v, Num(10))
  IN  Div(Sub(f(gp, Add(v, h)), f(gp, Sub(v, h))), Mul(Num(2), h))

\* C14: in every iteration the divisor of the step is the derivative of
\* f(v) = v * (forces) - P at the current v: it is the slope of f there,
\* within 2% of the slope and 5% of the drag.
C14_DivisorIsDerivative ==
  (pt.pc = "loop" /\ pt.t < Iterations) =>
    LET slope == SlopeOf_f(pt.gp, pt.v)
    IN  Le(MathAbs(Sub(df(pt.gp, pt.v), slope)),
           Add(Mul(Norm(2, -2), MathAbs(slope)), Mul(Norm(5, -2), aero(pt.v))))

\* C15: the speed the loop starts with and the speed after each iteration is
\* a finite number of at least 1 m/s, which is more than 1 mph.
C15_ClampedEachIteration ==
  pt.pc = "loop" =>
    /\ IsFinite(pt.v)
    /\ Le(IterFloor, pt.v)
    /\ Le(Num(1), Mul(pt.v, MsToMph))

\* On a climb of 25% the third and later iterations are held at the floor.
C15_Witness ==
  /\ pt.pc = "loop"
  /\ pt.gp = Num(25)
  /\ pt.t >= 3
  /\ pt.v = IterFloor
  /\ Lt(NewtonStep_NoClamp(pt.gp, pt.v), IterFloor)

\* C16: the power budget used at every point, whatever its grade and index,
\* is the power of the balance equation at grade 0 for the flat speed,
\* v_flat * (rolling + gravity + aero at grade 0), which is
\* v_flat * (m * g * Crr + 0.5 * rho * CdA * v_flat^2).
C16_PowerFromFlatSpeed ==
  pt.pc \in {"loop", "done"} =>
    /\ ApproxEq(P, Mul(v_flat, Add(Add(roll(Zero), grav(Zero)), aero(v_flat))))
    /\ ApproxEq(Add(f(pt.gp, v_flat), P),
                Mul(v_flat, Add(Add(grav(pt.gp), roll(pt.gp)), aero(v_flat))))
    /\ f(Zero, v_flat) = Zero

\* The callback has run for a point on a descent, with another index than 0.
C16_Witness ==
  /\ Done
  /\ Lt(pt.gp, Num(-5))
  /\ pt.i = 95
  /\ Lt(Num(120), P) /\ Lt(P, Num(130))

\* C17: the heuristic speed is the flat speed plus an adjustment that is
\* negative and proportional to the grade on a climb, and positive on a
\* descent but capped: from some descent grade of the range on, all steeper
\* grades get one and the same bonus; and the speed is at least the floor.
C17_DescentBonusCapped ==
  pt.pc = "loop" =>
    /\ Le(SeedFloor, SeedSpeed(pt.gp))
    /\ Lt(Zero, pt.gp) => HeuristicAdjust(pt.gp) = Neg(Mul(Norm(25, -2), pt.gp))
    /\ \E k \in GradeTenths :
         /\ k > -10 * MaxGradePct
         /\ \A j \in GradeTenths : j < k => HeuristicAdjust(Grade(j)) = HeuristicAdjust(Grade(k))

----------------------------------------------------------------------------
(* pages/Result.jsx: the video button and the chart effect, and the pages  *)
(* with every request they send.                                           *)

\* The number of video generations the model follows.
MaxVideos == 1

\* resp.url of the response of /api/video.
VideoPath == Str("/static/videos/ab.mp4")

\* route_name: data?.filename || (data?.route_hash ?? fileId)
RouteName(res) ==
  IF Truthy(Get(res.data, "filename")) THEN Get(res.data, "filename")
  ELSE Coalesce(Get(res.data, "route_hash"), res.fileId)

\* genVideo up to its first await; the button is rendered with the result and
\* disabled while busyVideo.
genVideo ==
  /\ result.mounted
  /\ Truthy(result.data) /\ Truthy(result.analysis)
  /\ ~result.busyVideo
  /\ Cardinality(SentOf("video")) < MaxVideos
  /\ LET req == Request("video",
                        [route_name |-> RouteName(result), analysis |-> result.analysis],
                        Null)
     IN  /\ net' = net \cup {req}
         /\ sent' = Append(sent, req)
  /\ result' = [result EXCEPT !.busyVideo = TRUE]
  /\ last' = Event("video", Null, Null)
  /\ UNCHANGED <<page, upload, params>>
  /\ UNCHANGED previewVars

\* The post of /api/video succeeded: genVideo goes on to its second await,
\* axios.get(API + filePath, { responseType: "blob" }).
VideoRendered ==
  \E req \in net :
    LET file == Request("videoFile", [url |-> VideoPath], Null)
    IN  /\ req.kind = "video"
        /\ net' = (net \ {req}) \cup {file}
        /\ sent' = Append(sent, file)
        /\ last' = Event("videoRendered", Null, file.body)
        /\ UNCHANGED <<page, upload, result, params>>
        /\ UNCHANGED previewVars

\* The blob arrived: downloadBlob(...), setVideoURL(filePath), and the
\* finally block.
VideoOk ==
  \E req \in net :
    /\ req.kind = "videoFile"
    /\ net' = net \ {req}
    /\ result' = [result EXCEPT !.videoURL = req.body.url, !.busyVideo = FALSE]
    /\ last' = Event("videoOk", Null, req.body)
    /\ UNCHANGED <<page, upload, params, sent>>
    /\ UNCHANGED previewVars

\* One of the two requests failed: catch (e) { alert(...) }, and the finally
\* block.
VideoFail ==
  \E req \in net :
    /\ req.kind \in {"video", "videoFile"}
    /\ net' = net \ {req}
    /\ result' = [result EXCEPT !.busyVideo = FALSE]
    /\ last' = Event("videoFailed", Null, ErrorBody)
    /\ UNCHANGED <<page, upload, params, sent>>
    /\ UNCHANGED previewVars

\* Mutant: the chart of the previous analysis is left alive.
destroy_Nothing(live, chart) == live

\* chart?.destroy(): the charts alive on a canvas afterwards.
destroy(live, chart) == IF chart = Null THEN live ELSE live \ {chart}

\* useEffect(() => { if (!analysis) return; ...; chart1?.destroy();
\* chart2?.destroy(); setChart1(new Chart(ctx1, ...)); setChart2(new
\* Chart(ctx2, ...)); }, [analysis]). Charts are numbered as they are made.
DrawCharts ==
  /\ result.mounted
  /\ result.draw
  /\ IF ~Truthy(result.analysis)
     THEN result' = [result EXCEPT !.draw = FALSE]
     ELSE LET c1 == [fin |-> FALSE, chart |-> result.made + 1]
              c2 == [fin |-> FALSE, chart |-> result.made + 2]
          IN  result' = [result EXCEPT
                !.draw = FALSE,
                !.canvas = [speedChart |-> destroy(@.speedChart, result.chart1) \cup {c1},
                            gradeChart |-> destroy(@.gradeChart, result.chart2) \cup {c2}],
                !.chart1 = c1,
                !.chart2 = c2,
                !.made = @ + 2]
  /\ last' = Event("draw", Null, Null)
  /\ UNCHANGED <<page, upload, params, net, sent>>
  /\ UNCHANGED previewVars

NextPage ==
  \/ UploadSetFile
  \/ UploadSubmit
  \/ AnalyzeOk
  \/ AnalyzeFail
  \/ ResultLoad
  \/ LoadOk
  \/ LoadFail
  \/ ParamsSubmit
  \/ RecomputeOk
  \/ RecomputeFail
  \/ genVideo
  \/ VideoRendered
  \/ VideoOk
  \/ VideoFail
  \/ DrawCharts

\* Every request that was sent settles, and an effect that waits is run.
SpecPage ==
  /\ InitApp
  /\ [][NextPage]_vars
  /\ WF_vars(AnalyzeOk \/ AnalyzeFail)
  /\ WF_vars(LoadOk \/ LoadFail)
  /\ WF_vars(RecomputeOk \/ RecomputeFail)
  /\ WF_vars(VideoRendered \/ VideoOk \/ VideoFail)
  /\ WF_vars(DrawCharts)

----------------------------------------------------------------------------
(* Claims about the busy flags, the recompute requests and the charts. *)

\* A request of one of the kinds is on its way.
Pending(kinds) == \E req \in net : req.kind \in kinds

UploadBusy == upload.mounted /\ upload.busy

ParamsBusy == params.mounted /\ params.busy

VideoBusy == result.mounted /\ result.busyVideo

\* C18: in UploadForm, in ParamsForm and for the video button the busy flag
\* is true exactly while a request of the submission is on its way, from the
\* start of the submission until the request settled with success or with
\* failure; and when the requests settle, a busy flag that is true becomes
\* false again: it is never left stuck at true.
C18_BusyUntilSettled ==
  /\ [](upload.mounted => (upload.busy <=> Pending({"analyze"})))
  /\ [](params.mounted => (params.busy <=> Pending({"recompute"})))
  /\ [](result.mounted => (result.busyVideo <=> Pending({"video", "videoFile"})))
  /\ [](~upload.mounted => ~Pending({"analyze"}))
  /\ (UploadBusy ~> ~UploadBusy)
  /\ (ParamsBusy ~> ~ParamsBusy)
  /\ (VideoBusy ~> ~VideoBusy)

\* A video generation failed at its second request while a recompute was on
\* its way, after an upload that failed once and succeeded then: the video
\* button is free again, and the form is still busy.
C18_Witness ==
  /\ last.ev = "videoFailed"
  /\ Len(sent) >= 5
  /\ sent[1].kind = "analyze" /\ sent[2].kind = "analyze"
  /\ \E i \in 1..Len(sent) : sent[i].kind = "videoFile"
  /\ ~VideoBusy
  /\ ParamsBusy
  /\ net = {req \in net : req.kind = "recompute"}

\* The recompute requests among a set of requests.
Recomputes(requests) == {req \in requests : req.kind = "recompute"}

\* C19: at most one recompute request of the ParamsForm is on its way at any
\* time; the request that settles is the one submitted last, and when it
\* succeeded the analysis shown afterwards is the one of its response.
C19_OneRecomputeOutstanding ==
  [][/\ Cardinality(Recomputes(net')) <= 1
     /\ \A req \in Recomputes(net) \ net' :
          /\ req = sent[Len(sent)]
          /\ Recomputes(net) = {req}
          /\ last'.ev = "recomputeOk" => result'.analysis = Get(last'.resp, "analysis")
     /\ Recomputes(net) # {} => Recomputes(net') \subseteq Recomputes(net)]_vars

\* Two configurations that differ were submitted one after the other, and
\* the analysis shown is the response to the second one.
C19_Witness ==
  /\ last.ev = "recomputeOk"
  /\ net = {}
  /\ Len(sent) = 2
  /\ sent[1].body.params # sent[2].body.params
  /\ result.analysis = Get(last.resp, "analysis")
  /\ result.analysis # sent[2].before.analysis
  /\ ~params.busy

\* The chart a canvas shows is the one held in state, and no other chart is
\* alive on the canvas.
OnlyLive(live, chart) == IF chart = Null THEN live = {} ELSE live = {chart}

\* C20: after any sequence of analysis updates each of the two canvases of
\* the result page has at most one chart that is alive, and it is the chart
\* held in state (chart1 for the speed canvas, chart2 for the grade canvas):
\* the chart of the previous analysis was destroyed when the new one was made.
C20_OneLiveChartPerCanvas ==
  result.mounted =>
    /\ Cardinality(result.canvas.speedChart) <= 1
    /\ Cardinality(result.canvas.gradeChart) <= 1
    /\ OnlyLive(result.canvas.speedChart, result.chart1)
    /\ OnlyLive(result.canvas.gradeChart, result.chart2)
    /\ result.chart1 # Null => result.chart1 # result.chart2

\* The charts were drawn three times: for the analysis of the upload and for
\* the responses of two recomputes; each canvas holds the chart made last.
C20_Witness ==
  /\ result.mounted
  /\ result.made = 6
  /\ ~result.draw
  /\ last.ev = "draw"
  /\ result.chart1 # Null /\ result.chart1.chart = 5
  /\ result.canvas.speedChart = {result.chart1}
  /\ result.canvas.gradeChart = {result.chart2}
  /\ Cardinality(SentOf("recompute")) = 2

----------------------------------------------------------------------------
(* components/MapView.jsx and components/PlaceFilters.jsx with the places   *)
(* and filters of pages/Result.jsx.  A JavaScript array is [arr |-> seq]; a *)
(* Set object is an index into a heap of set values, so that a copy and the *)
(* object it was copied from are told apart.                                *)

\* The number of updates (of geojson, of places, of the filters) the model
\* follows.
MaxUpdates == 3

Arr(seq) == [arr |-> seq]

\* const ALL = ["bike_shop", "cafe", "restaurant", "park", "water", "other"]
ALL == {"bike_shop", "cafe", "restaurant", "park", "water", "other"}

\* A route of two points [lng, lat], another one, and a collection with no
\* feature.
GeojsonValues ==
  {[features |-> Arr(<<[geometry |-> [coordinates |-> Arr(<<<<1, 2>>, <<3, 4>>>>)]]>>)],
   [features |-> Arr(<<[geometry |-> [coordinates |-> Arr(<<<<5, 6>>, <<7, 8>>>>)]]>>)],
   [features |-> Arr(<<>>)]}

\* Responses of /api/places: places with a category of the filters, with no
\* category, with an empty one and with one the filters do not have; no
\* place; and a body with no places.
PlacesValues ==
  {[places |-> Arr(<<[name |-> Str("Cafe"), category |-> Str("cafe")],
                     [name |-> Str("Bench")],
                     [name |-> Str("Pump"), category |-> Str("")],
                     [name |-> Str("Museum"), category |-> Str("museum")]>>)],
   [places |-> Arr(<<>>)],
   [status |-> Str("ok")]}

\* p.category || "other"
CategoryOf(p) == IF Truthy(Get(p, "category")) THEN Get(p, "category").str ELSE "other"

\* useMemo(() => { if (!places?.places) return []; return
\* places.places.filter((p) => filters.has(p.category || "other")); })
filteredPlaces(places, selected) ==
  IF Nullish(places) \/ ~Truthy(Get(places, "places")) THEN Arr(<<>>)
  ELSE LET has(q) == CategoryOf(q) \in selected
       IN  Arr(SelectSeq(places.places.arr, has))

\* Mutant: the selection is changed in place and passed on.
toggle_InPlace(heap, selected, key) ==
  [heap |-> [heap EXCEPT ![selected] = IF key \in @ THEN @ \ {key} ELSE @ \cup {key}],
   next |-> selected]

\* PlaceFilters.toggle: const next = new Set(selected); if (next.has(key))
\* next.delete(key); else next.add(key); onChange(next). The heap afterwards
\* and the object passed to onChange.
toggle(heap, selected, key) ==
  [heap |-> Append(heap, IF key \in heap[selected] THEN heap[selected] \ {key}
                         ELSE heap[selected] \cup {key}),
   next |-> Len(heap) + 1]

\* A layer of a map: what it is, its number and the map it was added to.
Layer(kind, id, map, content) ==
  [kind |-> kind, id |-> [fin |-> FALSE, layer |-> id], map |-> map, content |-> content]

\* Mutant: the layer stays on the map.
removeLayer_Nothing(layers, id) == layers

\* mapRef.current.removeLayer(layer)
removeLayer(layers, id) == {l \in layers : l.id # id}

\* The init effect: if (!ref.current) return; if (mapRef.current) return;
\* mapRef.current = L.map(ref.current); L.tileLayer(...).addTo(mapRef.current)
initEffect(v) ==
  IF ~v.ref \/ v.mapRef # Null THEN v
  ELSE [v EXCEPT !.mapRef = [fin |-> FALSE, map |-> v.maps + 1],
                 !.maps = @ + 1,
                 !.made = @ + 1,
                 !.layers = @ \cup {Layer("tile", v.made + 1, [fin |-> FALSE, map |-> v.maps + 1], Null)}]

\* The route effect. geojson.features[0].geometry throws for a collection
\* with no feature, after the line before was removed.
routeEffect(v) ==
  IF v.mapRef = Null \/ ~Truthy(v.geojson) THEN v
  ELSE LET cleared == IF v.lineRef # Null
                      THEN [v EXCEPT !.layers = removeLayer(@, v.lineRef), !.lineRef = Null]
                      ELSE v
           features == v.geojson.features.arr
       IN  IF features = <<>> THEN [cleared EXCEPT !.thrown = TRUE]
           ELSE LET coordinates == features[1].geometry.coordinates.arr
                    coords == [i \in DOMAIN coordinates |->
                                 <<coordinates[i][2], coordinates[i][1]>>]
                IN  [cleared EXCEPT
                       !.lineRef = [fin |-> FALSE, layer |-> v.made + 1],
                       !.made = @ + 1,
                       !.layers = @ \cup {Layer("line", v.made + 1, v.mapRef, Arr(coords))},
                       !.bounds = Arr(coords)]

\* The places effect: the layer group before is removed, a new one is added,
\* and a marker is added to the group for every place.
placesEffect(v) ==
  IF v.mapRef = Null THEN v
  ELSE LET cleared == IF v.placesLayer # Null
                      THEN [v EXCEPT !.layers = removeLayer(@, v.placesLayer),
                                     !.placesLayer = Null]
                      ELSE v
       IN  [cleared EXCEPT
              !.placesLayer = [fin |-> FALSE, layer |-> v.made + 1],
              !.made = @ + 1,
              !.layers = @ \cup {Layer("places", v.made + 1, v.mapRef, v.shown)}]

\* The effects of MapView that ran after a render, in their order; an effect
\* that threw ends them.
Effects(v, init, route, places) ==
  LET a == IF init THEN initEffect(v) ELSE v
      b == IF route THEN routeEffect(a) ELSE a
  IN  IF b.thrown \/ ~places THEN b ELSE placesEffect(b)

\* The first render of the Result page with its MapView, before the effects:
\* useState(null) of places, useState(new Set([...])) of filters, the useRef
\* values of MapView, and a map container with no map.
InitMap ==
  /\ pt = NoPt /\ rp = NoRp /\ pv = NoPv /\ calls = <<>>
  /\ agg = [pc |-> "idle"]
  /\ page = [route |-> "none"]
  /\ upload = NoUpload
  /\ result = NoResult
  /\ params = NoParams
  /\ net = {}
  /\ sent = <<>>
  /\ last = [ev |-> "none"]
  /\ \E geojson \in GeojsonValues \cup {Undefined} :
       view = [mounted |-> TRUE, fx |-> TRUE, thrown |-> FALSE, n |-> 0,
               geojson |-> geojson, places |-> Null,
               heap |-> <<ALL>>, filters |-> 1,
               shown |-> filteredPlaces(Null, ALL),
               ref |-> TRUE, mapRef |-> Null, lineRef |-> Null, placesLayer |-> Null,
               maps |-> 0, made |-> 0, layers |-> {}, bounds |-> Null,
               op |-> [name |-> "render"]]

\* The three effects after the first render.
MapMount ==
  /\ view.mounted /\ view.fx
  /\ view' = [Effects(view, TRUE, TRUE, TRUE) EXCEPT !.fx = FALSE, !.op = [name |-> "mount"]]
  /\ UNCHANGED <<pt, rp, pv, calls, agg, page, upload, result, params, net, sent, last>>

\* A view that takes updates: it is mounted, its effects ran and none threw.
Live(v) == v.mounted /\ ~v.fx /\ ~v.thrown /\ v.n < MaxUpdates

\* MapView is rendered with another geojson.
SetGeojson ==
  /\ Live(view)
  /\ \E geojson \in GeojsonValues \cup {Null} :
       view' = [Effects([view EXCEPT !.geojson = geojson], FALSE, TRUE, FALSE)
                  EXCEPT !.n = @ + 1, !.op = [name |-> "geojson"]]
  /\ UNCHANGED <<pt, rp, pv, calls, agg, page, upload, result, params, net, sent, last>>

\* setPlaces(resp) of fetchPlaces: filteredPlaces is computed again, and
\* MapView is rendered with it.
SetPlaces ==
  /\ Live(view)
  /\ \E resp \in PlacesValues :
       view' = [Effects([view EXCEPT !.places = resp,
                                     !.shown = filteredPlaces(resp, view.heap[view.filters])],
                        FALSE, FALSE, TRUE)
                  EXCEPT !.n = @ + 1, !.op = [name |-> "places"]]
  /\ UNCHANGED <<pt, rp, pv, calls, agg, page, upload, result, params, net, sent, last>>

\* A checkbox of PlaceFilters changes: toggle(k), and onChange is setFilters.
\* With another Set object filteredPlaces is computed again.
Toggle ==
  /\ Live(view)
  /\ \E key \in ALL :
       LET t == toggle(view.heap, view.filters, key)
           set == [view EXCEPT !.heap = t.heap, !.filters = t.next]
       IN  view' = [(IF t.next = view.filters THEN set
                     ELSE Effects([set EXCEPT !.shown = filteredPlaces(view.places,
                                                                        t.heap[t.next])],
                                  FALSE, FALSE, TRUE))
                      EXCEPT !.n = @ + 1,
                             !.op = [name |-> "toggle", key |-> key, selected |-> view.filters]]
  /\ UNCHANGED <<pt, rp, pv, calls, agg, page, upload, result, params, net, sent, last>>

NextMap == MapMount \/ SetGeojson \/ SetPlaces \/ Toggle

SpecMap == InitMap /\ [][NextMap]_vars

----------------------------------------------------------------------------
(* Claims about the map view and the place filters. *)

\* The layers of a kind that are on a map.
LayersOf(kind) == {l \in view.layers : l.kind = kind}

\* No layer of the kind is on a map when the ref is empty, and the layer the
\* ref holds is the only one otherwise.
HeldBy(kind, held) ==
  IF held = Null THEN LayersOf(kind) = {}
  ELSE \E l \in LayersOf(kind) : l.id = held /\ l.map = view.mapRef /\ LayersOf(kind) = {l}

\* C21: after any sequence of geojson and places updates the map was made
\* at most once, at most one route line and at most one places layer group
\* are on the map, and they are the ones the refs of MapView hold: the line
\* or the layer group before was removed when its replacement was added.
C21_OneMapOneLineOneLayer ==
  view.mounted =>
    /\ view.maps <= 1
    /\ (view.mapRef = Null) = (view.maps = 0)
    /\ Cardinality(LayersOf("line")) <= 1
    /\ Cardinality(LayersOf("places")) <= 1
    /\ Cardinality(LayersOf("tile")) = view.maps
    /\ HeldBy("line", view.lineRef)
    /\ HeldBy("places", view.placesLayer)

\* After the mount, another route was drawn and places arrived: the line is
\* the fourth layer made and the layer group, with markers, the fifth.
C21_Witness ==
  /\ view.mounted /\ ~view.fx
  /\ view.maps = 1
  /\ view.made = 5
  /\ view.lineRef # Null /\ view.lineRef.layer = 4
  /\ view.placesLayer # Null /\ view.placesLayer.layer = 5
  /\ \E l \in LayersOf("places") : Len(l.content.arr) > 0
  /\ \E l \in LayersOf("line") : l.content = view.bounds

\* The places of the response the page holds.
PlacesHeld == IF Nullish(view.places) \/ "places" \notin DOMAIN view.places THEN <<>>
              ELSE view.places.places.arr

\* The places of PlacesHeld that are among the first i and have a selected
\* category, "other" standing for a place with none.
SelectedUpTo(i) ==
  Cardinality({j \in 1..i : (IF "category" \in DOMAIN PlacesHeld[j]
                                /\ PlacesHeld[j].category.str # ""
                             THEN PlacesHeld[j].category.str
                             ELSE "other") \in view.heap[view.filters]})

\* A step that toggles a category.
Toggled == view'.op.name = "toggle" /\ view'.n = view.n + 1

\* C22: toggling a category gives a new selection that differs from the
\* current one in the membership of exactly that category and leaves the
\* current selection object as it was; toggling the same category again
\* gives the selection from before; and the places shown, in the list and
\* in the layer group of the map, are exactly the places whose category, or
\* "other" when they have none, is selected.
C22_ToggleAndFilter ==
  /\ [][Toggled =>
          LET key == view'.op.key
              cur == view.filters
              new == view'.filters
          IN  /\ new # cur
              /\ view'.heap[cur] = view.heap[cur]
              /\ \A k \in ALL \cup view.heap[cur] \cup view'.heap[new] :
                   (k \in view'.heap[new]) = (IF k = key THEN k \notin view.heap[cur]
                                              ELSE k \in view.heap[cur])
              /\ (view.op.name = "toggle" /\ view.op.key = key) =>
                   view'.heap[new] = view.heap[view.op.selected]]_vars
  /\ [](view.mounted =>
          /\ Len(view.shown.arr) = SelectedUpTo(Len(PlacesHeld))
          /\ \A i \in 1..Len(PlacesHeld) :
               SelectedUpTo(i) > SelectedUpTo(i - 1) =>
                 view.shown.arr[SelectedUpTo(i)] = PlacesHeld[i]
          /\ (~view.fx /\ ~view.thrown) =>
               \E l \in view.layers : l.kind = "places" /\ l.content = view.shown)

\* With places on the map, "other" was switched off and on again: the third
\* Set object has the members of the first, and the places with no category
\* are shown again.
C22_Witness ==
  /\ view.mounted
  /\ view.op.name = "toggle" /\ view.op.key = "other"
  /\ Len(view.heap) = 3 /\ view.filters = 3
  /\ view.heap[3] = view.heap[1] /\ view.heap[2] = ALL \ {"other"}
  /\ Len(PlacesHeld) = 4
  /\ Len(view.shown.arr) = 3

----------------------------------------------------------------------------
(* pages/Result.jsx: the report button. *)

\* The number of clicks on the report button the model follows.
MaxReports == 2

\* Mutant: the report is opened whether the upload of the charts succeeded
\* or not.
ReportHref_NoTry(fileId, settled) ==
  [file_id |-> Str(encodeURIComponent(fileId.str))]

\* What window.location.href is set to after the await of downloadReport:
\* API + "/api/report?file_id=" + encodeURIComponent(fileId) when the upload
\* of the charts succeeded, and nothing when it threw.
ReportHref(fileId, settled) ==
  IF settled.ok THEN [file_id |-> Str(encodeURIComponent(fileId.str))] ELSE Null

\* The result page is open with an analysis, before its chart effect ran.
InitReport ==
  /\ pt = NoPt /\ rp = NoRp /\ pv = NoPv /\ calls = <<>>
  /\ agg = [pc |-> "idle"]
  /\ view = [mounted |-> FALSE]
  /\ net = {}
  /\ sent = <<>>
  /\ last = Event("open", Null, Null)
  /\ upload = NoUpload
  /\ \E id \in FileIds, a \in ServerAnalyses :
       /\ page = [route |-> "result", fileId |-> Str(id), state |-> DataOf(id, a)]
       /\ result = [ResultMount(page.fileId, page.state) EXCEPT !.effect = FALSE]
       /\ params = ParamsRender(result, NoParams)

\* downloadReport up to its await: with a chart missing it alerts and
\* returns; else it posts the images of the two charts held in state. The
\* button has no busy flag.
downloadReport ==
  /\ result.mounted
  /\ Truthy(result.data) /\ Truthy(result.analysis)
  /\ Cardinality(SentOf("charts")) < MaxReports
  /\ IF result.chart1 = Null \/ result.chart2 = Null
     THEN /\ last' = Event("chartsNotReady", Null, Null)
          /\ UNCHANGED <<net, sent>>
     ELSE LET req == Request("charts",
                             [file_id |-> result.fileId,
                              speed_png |-> result.chart1,
                              grade_png |-> result.chart2],
                             [n |-> Len(sent)])
          IN  /\ net' = net \cup {req}
              /\ sent' = Append(sent, req)
              /\ last' = Event("charts", Null, Null)
  /\ UNCHANGED <<page, upload, result, params>>
  /\ UNCHANGED previewVars

\* The upload of the charts settled. When it succeeded the browser requests
\* the report; the page stays when the response is a download, and is left,
\* with its requests, when it is a document.
ReportSettle(req, settled, leaves) ==
  LET href == ReportHref(result.fileId, settled)
  IN  /\ req.kind = "charts"
      /\ IF href = Null
         THEN /\ net' = net \ {req}
              /\ UNCHANGED <<sent, page, result, params>>
         ELSE /\ sent' = Append(sent, Request("report", href, [n |-> Len(sent)]))
              /\ IF leaves
                 THEN /\ net' = {}
                      /\ page' = [route |-> "report", fileId |-> href.file_id, state |-> Null]
                      /\ result' = NoResult
                      /\ params' = NoParams
                 ELSE /\ net' = net \ {req}
                      /\ UNCHANGED <<page, result, params>>
      /\ UNCHANGED upload
      /\ UNCHANGED previewVars

\* await axios.post(API + "/api/charts", ...) succeeded.
ChartsOk ==
  \E req \in net, leaves \in BOOLEAN :
    /\ ReportSettle(req, [ok |-> TRUE, data |-> [ok |-> Bool(TRUE)]], leaves)
    /\ last' = Event("chartsOk", Null, req.body)

\* catch (e) { alert(...) }
ChartsFail ==
  \E req \in net :
    /\ ReportSettle(req, [ok |-> FALSE, data |-> ErrorBody], FALSE)
    /\ last' = Event("chartsFailed", Null, ErrorBody)

NextReport ==
  \/ DrawCharts
  \/ ParamsSubmit
  \/ RecomputeOk
  \/ RecomputeFail
  \/ downloadReport
  \/ ChartsOk
  \/ ChartsFail

SpecReport == InitReport /\ [][NextReport]_vars

----------------------------------------------------------------------------
(* Claims about the upload and the report. *)

\* C23: a submission of the upload form with no file chosen sends no
\* request, leaves busy false and stays on the page; the location changes
\* only when an analyze request succeeded, and then to the result page of
\* the file_id of that response, with the response as its state.
C23_UploadNavigatesOnSuccessOnly ==
  [][/\ last'.ev = "submitWithoutFile" =>
          /\ net' = net /\ sent' = sent
          /\ ~upload'.busy
          /\ page' = page
     /\ (upload.mounted /\ sent' # sent) => Truthy(upload.file)
     /\ page' # page =>
          /\ last'.ev = "analyzeOk"
          /\ \E req \in net \ net' : req.kind = "analyze"
          /\ page'.route = "result"
          /\ page'.fileId = Get(last'.resp, "file_id")
          /\ page'.state = last'.resp
          /\ result'.mounted /\ result'.fileId = page'.fileId]_vars

\* An upload failed and the next one succeeded with a file_id that has a
\* space: the result page of that file_id is shown.
C23_Witness ==
  /\ last.ev = "analyzeOk"
  /\ page.route = "result"
  /\ page.fileId = Str("b 2")
  /\ Get(page.state, "file_id") = Str("b 2")
  /\ Len(sent) = 2
  /\ ~upload.mounted
  /\ net = {}

\* The report requests among the requests sent.
Reports(history) == {i \in 1..Len(history) : history[i].kind = "report"}

\* C24: the report is requested only after an upload of the chart images
\* succeeded, and for the file of the page: a click with a chart missing
\* sends no request at all, an upload carries the two charts held in state,
\* and after an upload that failed no report is requested and the page is
\* not left.
C24_ReportAfterChartsUploaded ==
  /\ [][/\ last'.ev = "chartsNotReady" =>
             /\ result.chart1 = Null \/ result.chart2 = Null
             /\ net' = net /\ sent' = sent /\ page' = page
        /\ last'.ev = "charts" =>
             /\ result.chart1 # Null /\ result.chart2 # Null
             /\ sent'[Len(sent')].body.speed_png = result.chart1
             /\ sent'[Len(sent')].body.grade_png = result.chart2
        /\ last'.ev = "chartsFailed" => (sent' = sent /\ page' = page)
        /\ Reports(sent') # Reports(sent) =>
             /\ last'.ev = "chartsOk"
             /\ \E req \in net \ net' : req.kind = "charts" /\ req.body = last'.resp
             /\ sent'[Len(sent')].body.file_id = Str(encodeURIComponent(result.fileId.str))
        /\ page' # page => Reports(sent') # Reports(sent)]_vars
  /\ [](Cardinality(Reports(sent)) <= Cardinality(SentOf("charts")))

\* Two uploads of the charts were sent for a file id with a space; the first
\* failed and the second succeeded, and one report was requested, with the
\* id encoded.
C24_Witness ==
  /\ last.ev = "chartsOk"
  /\ Cardinality(SentOf("charts")) = 2
  /\ Cardinality(Reports(sent)) = 1
  /\ sent[Len(sent)].kind = "report"
  /\ sent[Len(sent)].body.file_id = Str("b%202")
  /\ net = {}
  /\ page.route = "result"

====
